---- MODULE Spec2Model ----
(***************************************************************************)
(* SLA monitoring engine of the incident tracker (class SLAService).       *)
(*                                                                         *)
(* The model follows src/backend/services/emailService.js lines 164-518:   *)
(* the monitor's lifecycle (startMonitoring / stopMonitoring), the timer   *)
(* ticks, and one breach-check pass with every await as a separate step.   *)
(* Times are in hours.  The store is the PostgreSQL database: the tickets  *)
(* table, the notifications table and the log written by db.insertLog.     *)
(***************************************************************************)
EXTENDS Integers, Sequences, FiniteSets, TLC

VARIABLES
    isRunning,        \* this.isRunning
    intervalId,       \* this.intervalId: the timer handle held, or NULL
    alertThresholds,  \* this.alertThresholds, in percent
    timers,           \* the repeating timers setInterval created and nobody cleared
    pendingStarts,    \* startMonitoring calls suspended at `await loadSLASettings()`
    noStartSinceStop, \* history: stopMonitoring was called and no startMonitoring call came after
    clock,            \* wall-clock time (new Date(), SQL NOW())
    tickets,          \* the tickets table: ticket id -> row
    passes,           \* pass id -> the position of that checkSLABreaches call; its excl
                      \* is history: the tickets ineligible ever since the tick and,
                      \* from the query's answer on, the tickets ineligible at the query
    nextPass,         \* number of the next pass to start
    alertCalls,       \* calls of db.insertLog made by recordSLAAlert (ok: the row was written)
    notifyCalls,      \* calls of createSLANotification (ok: the row was inserted)
    faults,           \* history: number of store calls of passes that have failed
    overlap,          \* history: a pass was started while another was in flight
    lateWrite,        \* history: a pass has called the store to write while isRunning was false
    evTicket,         \* classifier run: the ticket evaluated
    evThresholds,     \* classifier run: the thresholds in force
    evNow,            \* classifier run: the instant of the latest evaluation
    evClass,          \* classifier run: the handlers evaluateTicketSLA invoked at evNow
    evPrev,           \* classifier run: the handlers invoked at the evaluation before
    targetCall,       \* deadline run: the arguments of a calculateSLATarget call, the
                      \* answer to its configuration query and the instant of its new Date()
    targetResult,     \* deadline run: how the promise of that call settled, and with what
    walk              \* business-hours walk: the arguments of an addBusinessHours call with
                      \* businessHoursOnly = true, its locals result and remainingHours,
                      \* and whether it is in its loop or has returned

vars == <<isRunning, intervalId, alertThresholds, timers, pendingStarts,
          noStartSinceStop, clock, tickets, passes, nextPass, alertCalls,
          notifyCalls, faults, overlap, lateWrite, evTicket, evThresholds, evNow, evClass,
          evPrev, targetCall, targetResult, walk>>

monitorVars == <<isRunning, intervalId, alertThresholds, timers, pendingStarts,
                 noStartSinceStop>>

storeVars == <<alertCalls, notifyCalls>>

evalVars == <<evTicket, evThresholds, evNow, evClass, evPrev>>

targetVars == <<targetCall, targetResult>>

pureVars == <<evalVars, targetVars, walk>>

-----------------------------------------------------------------------------
(* Bounds of the model *)

MaxPasses == 2      \* passes started in one run
MaxTimers == 2      \* timers and suspended startMonitoring calls that exist at once
MaxTime == 72       \* last instant of the clock
MaxFaults == 1      \* store calls of passes that fail in one run
MaxEvalTime == 12   \* last instant of a classifier run
MaxConfigHours == 10  \* largest resolution_time_hours of a configuration row
MaxWalk == 20       \* largest `hours` of a business-hours walk, in half hours

(* Program constants *)

NULL == 0                 \* SQL NULL / JavaScript null (ids and times of the model are > 0)
DedupHours == 24          \* INTERVAL '24 hours'
DefaultWarning == 80      \* warning: 0.8
DefaultCritical == 95     \* critical: 0.95
Percent == 100            \* thresholds are kept in hundredths

ClockStep == DedupHours \div 2    \* the clock moves in steps of half a dedup window
StartTime == 2 * DedupHours       \* the clock when the first pass can start

StatusInputs == {"open", "resolved"}     \* the statuses a request sets in a run

-----------------------------------------------------------------------------
(* The classifier: evaluateTicketSLA *)

\* `elapsedTime / totalSLATime >= pct / 100` in IEEE arithmetic: a division by a
\* negative total turns the comparison around, x/0 is +Infinity or -Infinity by
\* the sign of x, and 0/0 is NaN, which is >= nothing.
RatioAtLeast(elapsedTime, totalSLATime, pct) ==
    IF totalSLATime > 0 THEN elapsedTime * Percent >= pct * totalSLATime
    ELSE IF totalSLATime < 0 THEN elapsedTime * Percent <= pct * totalSLATime
    ELSE elapsedTime > 0

\* The same with the breach test written `remainingTime <= 0`.
evaluateTicketSLA_BreachAtDeadline(ticket, currentTime, th) ==
    LET totalSLATime == ticket.sla_target - ticket.created_at
        elapsedTime == currentTime - ticket.created_at
        remainingTime == ticket.sla_target - currentTime
    IN  IF remainingTime <= 0 THEN <<"breach">>
        ELSE IF RatioAtLeast(elapsedTime, totalSLATime, th.critical) THEN <<"critical">>
        ELSE IF RatioAtLeast(elapsedTime, totalSLATime, th.warning) THEN <<"warning">>
        ELSE << >>

\* The same without the `return` after each handler: every test that holds runs
\* its handler.
evaluateTicketSLA_NoReturn(ticket, currentTime, th) ==
    LET totalSLATime == ticket.sla_target - ticket.created_at
        elapsedTime == currentTime - ticket.created_at
        remainingTime == ticket.sla_target - currentTime
    IN  (IF remainingTime < 0 THEN <<"breach">> ELSE << >>)
        \o (IF RatioAtLeast(elapsedTime, totalSLATime, th.critical)
              THEN <<"critical">> ELSE << >>)
        \o (IF RatioAtLeast(elapsedTime, totalSLATime, th.warning)
              THEN <<"warning">> ELSE << >>)

\* The same with the ratio taken of the remaining time instead of the elapsed
\* time.
evaluateTicketSLA_RemainingRatio(ticket, currentTime, th) ==
    LET totalSLATime == ticket.sla_target - ticket.created_at
        remainingTime == ticket.sla_target - currentTime
    IN  IF remainingTime < 0 THEN <<"breach">>
        ELSE IF RatioAtLeast(remainingTime, totalSLATime, th.critical) THEN <<"critical">>
        ELSE IF RatioAtLeast(remainingTime, totalSLATime, th.warning) THEN <<"warning">>
        ELSE << >>

\* The handlers evaluateTicketSLA invokes for a ticket row at currentTime, in the
\* order it invokes them (at most one: each branch returns).
evaluateTicketSLA(ticket, currentTime, th) ==
    LET totalSLATime == ticket.sla_target - ticket.created_at
        elapsedTime == currentTime - ticket.created_at
        remainingTime == ticket.sla_target - currentTime
    IN  IF remainingTime < 0 THEN <<"breach">>
        ELSE IF RatioAtLeast(elapsedTime, totalSLATime, th.critical) THEN <<"critical">>
        ELSE IF RatioAtLeast(elapsedTime, totalSLATime, th.warning) THEN <<"warning">>
        ELSE << >>

-----------------------------------------------------------------------------
(* The store calls of a pass, each with its try/catch.  `ok` says whether the  *)
(* store call succeeded.                                                       *)

\* The notification type a handler writes and looks up: `sla_${alertType}`.
SlaType(alertType) ==
    CASE alertType = "breach" -> "sla_breach"
      [] alertType = "critical" -> "sla_critical"
      [] alertType = "warning" -> "sla_warning"

\* The rows of the notifications table.
Notifications == {n \in notifyCalls : n.ok}

\* The AlertRecords of the log.
AlertRecords == {a \in alertCalls : a.ok}

\* WHERE t.status NOT IN ('resolved', 'closed') AND t.sla_target IS NOT NULL
Eligible(row) == row.status \notin {"resolved", "closed"} /\ row.sla_target # NULL

\* The tickets the query of getActiveTicketsWithSLA leaves out.
Ineligible == {t \in DOMAIN tickets : ~Eligible(tickets[t])}

\* The same without the status test.
ActiveTicketRows_AnyStatus ==
    LET ids == {t \in DOMAIN tickets : tickets[t].sla_target # NULL}
    IN  {s \in [1..Cardinality(ids) -> ids] :
            /\ \A i, j \in DOMAIN s : i # j => s[i] # s[j]
            /\ \A i, j \in DOMAIN s :
                  i < j => tickets[s[i]].sla_target <= tickets[s[j]].sla_target}

\* The same without the ORDER BY.
ActiveTicketRows_Unordered ==
    LET ids == {t \in DOMAIN tickets : Eligible(tickets[t])}
    IN  {s \in [1..Cardinality(ids) -> ids] :
            \A i, j \in DOMAIN s : i # j => s[i] # s[j]}

\* The results the SELECT of getActiveTicketsWithSLA can give: the eligible
\* tickets ORDER BY sla_target ASC (rows with equal deadlines in either order).
ActiveTicketRows ==
    LET ids == {t \in DOMAIN tickets : Eligible(tickets[t])}
    IN  {s \in [1..Cardinality(ids) -> ids] :
            /\ \A i, j \in DOMAIN s : i # j => s[i] # s[j]
            /\ \A i, j \in DOMAIN s :
                  i < j => tickets[s[i]].sla_target <= tickets[s[j]].sla_target}

\* getActiveTicketsWithSLA: the rows, or [] when the query fails.
getActiveTicketsWithSLA(ok, rows) == IF ok THEN rows ELSE << >>

\* The same without the test of the type.
checkExistingAlert_AnyType(ok, ticketId, alertType) ==
    IF ok
    THEN \E n \in Notifications :
            /\ n.ticket = ticketId
            /\ n.at > clock - DedupHours
    ELSE FALSE

\* The same without the 24-hour window: any earlier notification of the ticket
\* and type counts.
checkExistingAlert_NoWindow(ok, ticketId, alertType) ==
    IF ok
    THEN \E n \in Notifications :
            /\ n.ticket = ticketId
            /\ n.type = SlaType(alertType)
    ELSE FALSE

\* The same with a failed query answering that an alert exists.
checkExistingAlert_FailsClosed(ok, ticketId, alertType) ==
    IF ok
    THEN \E n \in Notifications :
            /\ n.ticket = ticketId
            /\ n.type = SlaType(alertType)
            /\ n.at > clock - DedupHours
    ELSE TRUE

\* checkExistingAlert: a notification of this ticket and type created within the
\* last 24 hours exists; false when the query fails.
checkExistingAlert(ok, ticketId, alertType) ==
    IF ok
    THEN \E n \in Notifications :
            /\ n.ticket = ticketId
            /\ n.type = SlaType(alertType)
            /\ n.at > clock - DedupHours
    ELSE FALSE

\* The same without the try/catch: a failed insert rejects.
recordSLAAlert_Throws(ok) == IF ok THEN "resolved" ELSE "rejected"

\* recordSLAAlert: resolves whether or not db.insertLog wrote the row.
recordSLAAlert(ok) == "resolved"

\* The same without the try/catch: a failed insert rejects.
createSLANotification_Throws(ok) == IF ok THEN "resolved" ELSE "rejected"

\* createSLANotification: resolves whether or not the INSERT succeeded.
createSLANotification(ok) == "resolved"

\* db.insertLog: appends the entry to the log when the store accepts it.
insertLog(ok, entry) == alertCalls \cup {[entry EXCEPT !.ok = ok]}

\* The INSERT INTO notifications of createSLANotification: created_at is NOW().
insertNotification(ok, userId, ticketId, type, pass) ==
    notifyCalls \cup {[user |-> userId, ticket |-> ticketId, type |-> type,
                       at |-> clock, pass |-> pass, ok |-> ok]}

-----------------------------------------------------------------------------
(* The tickets of a run *)

Assignee == 1
Reporter == 2

Ticket(status, created, target, assignee, reporter) ==
    [status |-> status, created_at |-> created, sla_target |-> target,
     assignee_id |-> assignee, reporter_id |-> reporter]

\* Ticket rows by age at StartTime: past the deadline; past the warning ratio
\* (40/48) and past the deadline one step later; at the deadline exactly (ratio
\* 1, nothing remaining) and past it one step later; far from any threshold.
Overdue(status, assignee) == Ticket(status, 8, 40, assignee, Reporter)
Warn(status, assignee) == Ticket(status, 8, 56, assignee, Reporter)
Crit(status, assignee) == Ticket(status, 8, 48, assignee, Reporter)
Fresh(status, assignee) == Ticket(status, 40, 88, assignee, Reporter)
NoDeadline(status, assignee) == Ticket(status, 8, NULL, assignee, Reporter)

\* A ticket below the warning ratio at StartTime (36/60), at it one step later
\* (48/60) and at its deadline after two; a ticket whose deadline lies before
\* its creation.
Aging(status, assignee) == Ticket(status, 12, 72, assignee, Reporter)
Malformed(status, assignee) == Ticket(status, 40, 32, assignee, Reporter)

\* Two-ticket tables: an assigned overdue ticket and an unassigned one; a ticket
\* in progress reported by its assignee and a ticket without deadline; a closed
\* overdue ticket and a fresh one; a malformed ticket and an aging one.
Worlds ==
    { <<Overdue("open", Assignee), Warn("open", NULL)>>,
      <<Crit("in-progress", Reporter), NoDeadline("open", Assignee)>>,
      <<Overdue("closed", Assignee), Fresh("open", Assignee)>>,
      <<Malformed("open", Assignee), Aging("open", Assignee)>> }

\* A ticket past its deadline one clock step before StartTime already.
Stale(status, assignee) == Ticket(status, 8, 32, assignee, Reporter)

\* One stale ticket: assigned to someone else than its reporter, assigned to its
\* reporter, unassigned.
LiveWorlds ==
    { <<Stale("open", Assignee)>>,
      <<Stale("in-progress", Reporter)>>,
      <<Stale("open", NULL)>> }

\* One ticket, long overdue.
SmallWorlds == { <<Overdue("open", Assignee)>> }

\* The tickets whose status requests change in a run.
UpdatedTickets == {1}

-----------------------------------------------------------------------------
(* Lifecycle: constructor, startMonitoring, loadSLASettings, stopMonitoring *)

DefaultThresholds == [warning |-> DefaultWarning, critical |-> DefaultCritical]

\* Results of "SELECT value FROM settings WHERE key = 'sla_alerts'": the query
\* fails, no row, or a row (a threshold of 0 stands for an absent or falsy field).
SettingsResults ==
    { [ok |-> FALSE, rows |-> << >>],
      [ok |-> TRUE, rows |-> << >>],
      [ok |-> TRUE, rows |-> <<[warning_threshold |-> 60, critical_threshold |-> 90]>>] }

\* loadSLASettings: the thresholds after the call, given the thresholds before
\* and the query's result; a failure is logged and leaves them as they were.
loadSLASettings(th, res) ==
    IF res.ok /\ Len(res.rows) > 0
    THEN LET settings == res.rows[1]
         IN  [warning |-> IF settings.warning_threshold # 0
                            THEN settings.warning_threshold ELSE th.warning,
              critical |-> IF settings.critical_threshold # 0
                             THEN settings.critical_threshold ELSE th.critical]
    ELSE th

TimerIds == 1..MaxTimers

\* The handle setInterval returns: a timer that does not exist yet.
FreshTimer == CHOOSE id \in TimerIds \ timers : \A j \in TimerIds \ timers : id <= j

\* startMonitoring up to its await: returns at once when running, else issues
\* the settings query and suspends.
StartCall ==
    /\ isRunning \/ Cardinality(timers) + pendingStarts < MaxTimers
    /\ pendingStarts' = IF isRunning THEN pendingStarts ELSE pendingStarts + 1
    /\ noStartSinceStop' = FALSE
    /\ UNCHANGED <<isRunning, intervalId, alertThresholds, timers, clock, tickets,
                   passes, nextPass, storeVars, faults, overlap, lateWrite, pureVars>>

\* The same with the flag set but the handle not kept.
StartResume_DropsHandle(res) ==
    /\ pendingStarts > 0
    /\ pendingStarts' = pendingStarts - 1
    /\ alertThresholds' = loadSLASettings(alertThresholds, res)
    /\ timers' = timers \cup {FreshTimer}
    /\ isRunning' = TRUE
    /\ UNCHANGED <<intervalId, noStartSinceStop, clock, tickets, passes, nextPass,
                   storeVars, faults, overlap, lateWrite, pureVars>>

\* startMonitoring from the settings query's answer on: loadSLASettings
\* finishes, setInterval creates a timer, the handle and the flag are set.
StartResume(res) ==
    /\ pendingStarts > 0
    /\ pendingStarts' = pendingStarts - 1
    /\ alertThresholds' = loadSLASettings(alertThresholds, res)
    /\ timers' = timers \cup {FreshTimer}
    /\ intervalId' = FreshTimer
    /\ isRunning' = TRUE
    /\ UNCHANGED <<noStartSinceStop, clock, tickets, passes, nextPass, storeVars,
                   faults, overlap, lateWrite, pureVars>>

\* The same with the passes in flight cut short.
StopMonitoring_AbortsPasses ==
    /\ timers' = IF intervalId # NULL THEN timers \ {intervalId} ELSE timers
    /\ intervalId' = NULL
    /\ isRunning' = FALSE
    /\ noStartSinceStop' = TRUE
    /\ passes' = [p \in DOMAIN passes |->
                    IF passes[p].pc \notin {"idle", "done"}
                    THEN [pc |-> "done", now |-> NULL, queue |-> << >>, todo |-> << >>,
                          excl |-> {}]
                    ELSE passes[p]]
    /\ UNCHANGED <<alertThresholds, pendingStarts, clock, tickets, nextPass,
                   storeVars, faults, overlap, lateWrite, pureVars>>

\* stopMonitoring: clears the timer whose handle is held, resets handle and flag.
StopMonitoring ==
    /\ timers' = IF intervalId # NULL THEN timers \ {intervalId} ELSE timers
    /\ intervalId' = NULL
    /\ isRunning' = FALSE
    /\ noStartSinceStop' = TRUE
    /\ UNCHANGED <<alertThresholds, pendingStarts, clock, tickets, passes, nextPass,
                   storeVars, faults, overlap, lateWrite, pureVars>>

-----------------------------------------------------------------------------
(* One pass: checkSLABreaches, suspended at each await *)

PassIds == 1..MaxPasses

IdlePass == [pc |-> "idle", now |-> NULL, queue |-> << >>, todo |-> << >>, excl |-> {}]

InFlight(p) == passes[p].pc \notin {"idle", "done"}

\* The ticket and the alert kind pass p is handling.
CurTicket(p) == Head(passes[p].queue)
CurKind(p) == Head(passes[p].todo)

\* The loop of checkSLABreaches up to its next store call: tickets for which
\* evaluateTicketSLA invokes no handler are passed over.
RECURSIVE Settle(_, _)
Settle(queue, now) ==
    IF queue = << >> THEN [queue |-> << >>, todo |-> << >>]
    ELSE LET h == evaluateTicketSLA(tickets[Head(queue)], now, alertThresholds)
         IN  IF h = << >> THEN Settle(Tail(queue), now)
             ELSE [queue |-> queue, todo |-> h]

\* Pass record pr positioned on the first ticket of `queue` that needs a handler.
Position(pr, queue) ==
    LET s == Settle(queue, pr.now)
    IN  IF s.queue = << >>
        THEN [IdlePass EXCEPT !.pc = "done"]
        ELSE [pr EXCEPT !.pc = "check", !.queue = s.queue, !.todo = s.todo]

\* Pass record pr after the handler of its current kind has returned.
HandlerReturned(pr) ==
    IF Tail(pr.todo) # << >>
    THEN [pr EXCEPT !.pc = "check", !.todo = Tail(pr.todo)]
    ELSE Position(pr, Tail(pr.queue))

\* Where a handler goes after `await recordSLAAlert`: into the send function of
\* its kind, up to that function's first createSLANotification call.
AfterRecord(alertType, ticket, outcome) ==
    IF outcome = "rejected" THEN "return"
    ELSE IF ticket.assignee_id # NULL THEN "notifyAssignee"
    ELSE IF alertType = "breach" /\ ticket.reporter_id # ticket.assignee_id
         THEN "notifyReporter"
    ELSE "return"

\* The same with every send function going on to the reporter.
AfterNotifyAssignee_AnyKind(alertType, ticket, outcome) ==
    IF outcome = "rejected" THEN "return"
    ELSE IF ticket.reporter_id # ticket.assignee_id THEN "notifyReporter"
    ELSE "return"

\* Where the send function goes after the assignee's createSLANotification:
\* sendBreachNotifications goes on to the reporter, the other two return; a
\* rejection would leave through the send function's catch.
AfterNotifyAssignee(alertType, ticket, outcome) ==
    IF outcome = "rejected" THEN "return"
    ELSE IF alertType = "breach" /\ ticket.reporter_id # ticket.assignee_id
         THEN "notifyReporter"
    ELSE "return"

\* Pass record pr moved to position `to`.
Goto(pr, to) == IF to = "return" THEN HandlerReturned(pr) ELSE [pr EXCEPT !.pc = to]

\* The same with a tick skipped while an earlier pass is in flight.
Tick_SingleFlight(tm) ==
    /\ tm \in timers
    /\ nextPass <= MaxPasses
    /\ \A q \in PassIds : ~InFlight(q)
    /\ passes' = [passes EXCEPT ![nextPass] =
                    [IdlePass EXCEPT !.pc = "fetch",
                                     !.excl = Ineligible]]
    /\ nextPass' = nextPass + 1
    /\ overlap' = (overlap \/ \E q \in PassIds : InFlight(q))
    /\ UNCHANGED <<monitorVars, clock, tickets, storeVars, faults, lateWrite, pureVars>>

\* A tick of timer tm: the setInterval callback calls checkSLABreaches, which
\* issues the ticket query.
Tick(tm) ==
    /\ tm \in timers
    /\ nextPass <= MaxPasses
    /\ passes' = [passes EXCEPT ![nextPass] =
                    [IdlePass EXCEPT !.pc = "fetch",
                                     !.excl = Ineligible]]
    /\ nextPass' = nextPass + 1
    /\ overlap' = (overlap \/ \E q \in PassIds : InFlight(q))
    /\ UNCHANGED <<monitorVars, clock, tickets, storeVars, faults, lateWrite, pureVars>>

\* The same with a failed ticket query ending the monitor.
PassFetch_StopsOnError(p, ok) ==
    /\ passes[p].pc = "fetch"
    /\ \E rows \in ActiveTicketRows :
          LET got == getActiveTicketsWithSLA(ok, rows)
              pr == [passes[p] EXCEPT !.now = clock, !.excl = Ineligible]
          IN  passes' = [passes EXCEPT ![p] = Position(pr, got)]
    /\ ok \/ faults < MaxFaults
    /\ faults' = IF ok THEN faults ELSE faults + 1
    /\ IF ok THEN UNCHANGED <<isRunning, intervalId, timers>>
       ELSE isRunning' = FALSE /\ intervalId' = NULL /\ timers' = {}
    /\ UNCHANGED <<alertThresholds, pendingStarts, noStartSinceStop, clock, tickets,
                   nextPass, storeVars, overlap, lateWrite, pureVars>>

\* The ticket query answers: `now` is taken and the loop runs to its first
\* store call.
PassFetch(p, ok) ==
    /\ passes[p].pc = "fetch"
    /\ \E rows \in ActiveTicketRows :
          LET got == getActiveTicketsWithSLA(ok, rows)
              pr == [passes[p] EXCEPT !.now = clock, !.excl = Ineligible]
          IN  passes' = [passes EXCEPT ![p] = Position(pr, got)]
    /\ ok \/ faults < MaxFaults
    /\ faults' = IF ok THEN faults ELSE faults + 1
    /\ UNCHANGED <<monitorVars, clock, tickets, nextPass, storeVars, overlap, lateWrite,
                   pureVars>>

\* The same with a failed lookup leaving through the catch of checkSLABreaches.
PassCheck_AbortsOnError(p, ok) ==
    /\ passes[p].pc = "check"
    /\ passes' = [passes EXCEPT ![p] =
                    IF ~ok THEN [IdlePass EXCEPT !.pc = "done"]
                    ELSE IF checkExistingAlert(ok, CurTicket(p), CurKind(p))
                    THEN HandlerReturned(passes[p])
                    ELSE [passes[p] EXCEPT !.pc = "record"]]
    /\ ok \/ faults < MaxFaults
    /\ faults' = IF ok THEN faults ELSE faults + 1
    /\ UNCHANGED <<monitorVars, clock, tickets, nextPass, storeVars, overlap, lateWrite,
                   pureVars>>

\* The dedup lookup answers: the handler returns when an alert exists, else it
\* calls recordSLAAlert.
PassCheck(p, ok) ==
    /\ passes[p].pc = "check"
    /\ passes' = [passes EXCEPT ![p] =
                    IF checkExistingAlert(ok, CurTicket(p), CurKind(p))
                    THEN HandlerReturned(passes[p])
                    ELSE [passes[p] EXCEPT !.pc = "record"]]
    /\ ok \/ faults < MaxFaults
    /\ faults' = IF ok THEN faults ELSE faults + 1
    /\ UNCHANGED <<monitorVars, clock, tickets, nextPass, storeVars, overlap, lateWrite,
                   pureVars>>

\* The same with the new AlertRecord taking the place of the earlier ones of
\* its ticket and kind.
PassRecord_ReplacesRecord(p, ok) ==
    /\ passes[p].pc = "record"
    /\ alertCalls' =
          {a \in alertCalls : ~ok \/ a.ticket # CurTicket(p) \/ a.kind # CurKind(p)}
          \cup {[ticket |-> CurTicket(p), kind |-> CurKind(p), at |-> clock,
                 pass |-> p, ok |-> ok]}
    /\ passes' = [passes EXCEPT ![p] =
                    Goto(passes[p], AfterRecord(CurKind(p), tickets[CurTicket(p)],
                                                recordSLAAlert(ok)))]
    /\ ok \/ faults < MaxFaults
    /\ faults' = IF ok THEN faults ELSE faults + 1
    /\ lateWrite' = (lateWrite \/ ~isRunning)
    /\ UNCHANGED <<monitorVars, clock, tickets, nextPass, notifyCalls, overlap, pureVars>>

\* The same with the handler marking the ticket it has alerted.
PassRecord_MarksTicket(p, ok) ==
    /\ passes[p].pc = "record"
    /\ alertCalls' = insertLog(ok, [ticket |-> CurTicket(p), kind |-> CurKind(p),
                                    at |-> clock, pass |-> p, ok |-> TRUE])
    /\ tickets' = [tickets EXCEPT ![CurTicket(p)].status = "in-progress"]
    /\ passes' = [passes EXCEPT ![p] =
                    Goto(passes[p], AfterRecord(CurKind(p), tickets[CurTicket(p)],
                                                recordSLAAlert(ok)))]
    /\ ok \/ faults < MaxFaults
    /\ faults' = IF ok THEN faults ELSE faults + 1
    /\ lateWrite' = (lateWrite \/ ~isRunning)
    /\ UNCHANGED <<monitorVars, clock, nextPass, notifyCalls, overlap, pureVars>>

\* db.insertLog answers: the handler goes on to the send function of its kind.
PassRecord(p, ok) ==
    /\ passes[p].pc = "record"
    /\ alertCalls' = insertLog(ok, [ticket |-> CurTicket(p), kind |-> CurKind(p),
                                    at |-> clock, pass |-> p, ok |-> TRUE])
    /\ passes' = [passes EXCEPT ![p] =
                    Goto(passes[p], AfterRecord(CurKind(p), tickets[CurTicket(p)],
                                                recordSLAAlert(ok)))]
    /\ ok \/ faults < MaxFaults
    /\ faults' = IF ok THEN faults ELSE faults + 1
    /\ lateWrite' = (lateWrite \/ ~isRunning)
    /\ UNCHANGED <<monitorVars, clock, tickets, nextPass, notifyCalls, overlap, pureVars>>

\* The assignee's notification INSERT answers.
PassNotifyAssignee(p, ok) ==
    /\ passes[p].pc = "notifyAssignee"
    /\ notifyCalls' = insertNotification(ok, tickets[CurTicket(p)].assignee_id,
                                         CurTicket(p), SlaType(CurKind(p)), p)
    /\ passes' = [passes EXCEPT ![p] =
                    Goto(passes[p], AfterNotifyAssignee(CurKind(p), tickets[CurTicket(p)],
                                                        createSLANotification(ok)))]
    /\ ok \/ faults < MaxFaults
    /\ faults' = IF ok THEN faults ELSE faults + 1
    /\ lateWrite' = (lateWrite \/ ~isRunning)
    /\ UNCHANGED <<monitorVars, clock, tickets, nextPass, alertCalls, overlap, pureVars>>

\* The reporter's notification INSERT answers (sendBreachNotifications only).
PassNotifyReporter(p, ok) ==
    /\ passes[p].pc = "notifyReporter"
    /\ notifyCalls' = insertNotification(ok, tickets[CurTicket(p)].reporter_id,
                                         CurTicket(p), SlaType(CurKind(p)), p)
    /\ passes' = [passes EXCEPT ![p] = HandlerReturned(passes[p])]
    /\ ok \/ faults < MaxFaults
    /\ faults' = IF ok THEN faults ELSE faults + 1
    /\ lateWrite' = (lateWrite \/ ~isRunning)
    /\ UNCHANGED <<monitorVars, clock, tickets, nextPass, alertCalls, overlap, pureVars>>

-----------------------------------------------------------------------------
(* The environment of the passes: time passes, requests change a ticket's status *)

\* The clock moves by half a dedup window at a time; the store calls of a pass
\* answer within one such step, so the clock moves only between passes.
AdvanceClock ==
    /\ clock + ClockStep <= MaxTime
    /\ \A p \in PassIds : ~InFlight(p)
    /\ clock' = clock + ClockStep
    /\ UNCHANGED <<monitorVars, tickets, passes, nextPass, storeVars, faults, overlap,
                   lateWrite, pureVars>>

\* PATCH /:id/status: UPDATE tickets SET status = $1.  A ticket that becomes
\* eligible leaves the `excl` of the passes whose query has not run yet.
UpdateStatus(t, status) ==
    /\ tickets[t].status # status
    /\ tickets' = [tickets EXCEPT ![t].status = status]
    /\ passes' = [p \in PassIds |->
                    IF passes[p].pc = "fetch" /\ Eligible(tickets'[t])
                    THEN [passes[p] EXCEPT !.excl = @ \ {t}]
                    ELSE passes[p]]
    /\ UNCHANGED <<monitorVars, clock, nextPass, storeVars, faults, overlap, lateWrite, pureVars>>

-----------------------------------------------------------------------------
(* A classifier run: one ticket, fixed thresholds, evaluated at instants that  *)
(* do not decrease                                                             *)

NoTicket == Ticket("open", NULL, NULL, NULL, NULL)

EvalTickets ==
    {Ticket("open", c, s, Assignee, Reporter) : c \in 1..4, s \in 1..(MaxEvalTime - 1)}

EvalThresholds ==
    { DefaultThresholds,
      [warning |-> 60, critical |-> 90],
      [warning |-> 90, critical |-> 80] }

Evaluate(now) ==
    /\ evTicket # NoTicket
    /\ now >= evNow
    /\ evNow' = now
    /\ evClass' = evaluateTicketSLA(evTicket, now, evThresholds)
    /\ evPrev' = evClass
    /\ UNCHANGED <<monitorVars, clock, tickets, passes, nextPass, storeVars, faults,
                   overlap, lateWrite, evTicket, evThresholds, targetVars, walk>>

-----------------------------------------------------------------------------
(* Deadline computation: calculateSLATarget and addBusinessHours.  Instants   *)
(* of a deadline run are counted in half hours of local time from a Sunday    *)
(* 00:00, in a zone without daylight-saving changes.                           *)

PerHour == 2                    \* half hours in an hour
PerDay == 24 * PerHour          \* half hours in a day
WeekLength == 7 * PerDay        \* half hours in a week
OpeningHour == 9                \* setHours(9, 0, 0, 0)
ClosingHour == 17               \* setHours(17, 0, 0, 0)
FallbackHours == 24             \* Date.now() + 24 * 60 * 60 * 1000
Priorities == {"critical", "high", "medium", "low"}   \* ENUM ticket_priority

\* const defaultSLA
defaultSLA == [pr \in Priorities |->
                 CASE pr = "critical" -> 4
                   [] pr = "high" -> 24
                   [] pr = "medium" -> 72
                   [] pr = "low" -> 120]

\* defaultSLA[priority] || 72
DefaultHours(priority) ==
    IF priority \in DOMAIN defaultSLA /\ defaultSLA[priority] # 0
    THEN defaultSLA[priority] ELSE 72

\* Date.prototype.getHours, getDay (0 is Sunday)
getHours(date) == (date % PerDay) \div PerHour
getDay(date) == (date \div PerDay) % 7

\* setHours(h, 0, 0, 0) on the day of `date`, and the same after
\* setDate(getDate() + 1).
AtHour(date, h) == (date \div PerDay) * PerDay + h * PerHour
NextDayAtOpening(date) == AtHour(date + PerDay, OpeningHour)

\* The while loop of addBusinessHours, `remaining` counted in half hours,
\* without the weekend test.
RECURSIVE Walk_NoWeekend(_, _)
Walk_NoWeekend(result, remaining) ==
    IF remaining <= 0 THEN result
    ELSE LET currentHour == getHours(result)
             hoursUntilEndOfDay == AtHour(result, ClosingHour) - result
         IN  IF currentHour < OpeningHour
               THEN Walk_NoWeekend(AtHour(result, OpeningHour), remaining)
             ELSE IF currentHour >= ClosingHour
               THEN Walk_NoWeekend(NextDayAtOpening(result), remaining)
             ELSE IF remaining <= hoursUntilEndOfDay
               THEN result + remaining
             ELSE Walk_NoWeekend(NextDayAtOpening(result), remaining - hoursUntilEndOfDay)

\* The while loop of addBusinessHours, `remaining` counted in half hours.
RECURSIVE Walk(_, _)
Walk(result, remaining) ==
    IF remaining <= 0 THEN result
    ELSE LET currentHour == getHours(result)
             currentDay == getDay(result)
             hoursUntilEndOfDay == AtHour(result, ClosingHour) - result
         IN  IF currentDay = 0 \/ currentDay = 6
               THEN Walk(NextDayAtOpening(result), remaining)
             ELSE IF currentHour < OpeningHour
               THEN Walk(AtHour(result, OpeningHour), remaining)
             ELSE IF currentHour >= ClosingHour
               THEN Walk(NextDayAtOpening(result), remaining)
             ELSE IF remaining <= hoursUntilEndOfDay
               THEN result + remaining
             ELSE Walk(NextDayAtOpening(result), remaining - hoursUntilEndOfDay)

\* The same walking the business calendar whatever the flag.
addBusinessHours_AlwaysBusiness(startDate, hours, businessHoursOnly) ==
    Walk(startDate, hours * PerHour)

\* The same counting Saturdays and Sundays as business days.
addBusinessHours_NoWeekend(startDate, hours, businessHoursOnly) ==
    IF ~businessHoursOnly THEN startDate + hours * PerHour
    ELSE Walk_NoWeekend(startDate, hours * PerHour)

\* addBusinessHours
addBusinessHours(startDate, hours, businessHoursOnly) ==
    IF ~businessHoursOnly THEN startDate + hours * PerHour
    ELSE Walk(startDate, hours * PerHour)

\* The same without the try/catch: a failed configuration query rejects.
calculateSLATarget_Rethrows(priority, businessHoursOnly, res, now) ==
    IF ~res.ok
    THEN [state |-> "rejected", value |-> NULL]
    ELSE IF Len(res.rows) = 0
    THEN [state |-> "resolved",
          value |-> addBusinessHours(now, DefaultHours(priority), businessHoursOnly)]
    ELSE [state |-> "resolved",
          value |-> addBusinessHours(now, res.rows[1].resolution_time_hours,
                                     businessHoursOnly)]

\* calculateSLATarget: how its promise settles, given the answer `res` to the
\* configuration query and the instant `now` of new Date() / Date.now().
calculateSLATarget(priority, businessHoursOnly, res, now) ==
    IF ~res.ok
    THEN [state |-> "resolved", value |-> now + FallbackHours * PerHour]
    ELSE IF Len(res.rows) = 0
    THEN [state |-> "resolved",
          value |-> addBusinessHours(now, DefaultHours(priority), businessHoursOnly)]
    ELSE [state |-> "resolved",
          value |-> addBusinessHours(now, res.rows[1].resolution_time_hours,
                                     businessHoursOnly)]

\* Answers to "SELECT resolution_time_hours FROM sla_configs WHERE priority = $1
\* AND is_active = true": the query fails, no row, or a row.
ConfigResults ==
    { [ok |-> FALSE, rows |-> << >>], [ok |-> TRUE, rows |-> << >>] }
    \cup { [ok |-> TRUE, rows |-> <<[resolution_time_hours |-> h]>>] :
             h \in 1..MaxConfigHours }

NoCall == [priority |-> "none", businessHoursOnly |-> FALSE,
           config |-> [ok |-> FALSE, rows |-> << >>], now |-> NULL]

NoResult == [state |-> "pending", value |-> NULL]

\* The calls of a deadline run: every priority, both flags, every answer, every
\* half hour of a week.
TargetCalls ==
    [priority : Priorities, businessHoursOnly : BOOLEAN, config : ConfigResults,
     now : 0..(WeekLength - 1)]

\* One call of calculateSLATarget, from the call to the settling of its promise.
CalculateSLATarget ==
    /\ targetCall # NoCall
    /\ targetResult = NoResult
    /\ targetResult' = calculateSLATarget(targetCall.priority,
                                          targetCall.businessHoursOnly,
                                          targetCall.config, targetCall.now)
    /\ UNCHANGED <<monitorVars, clock, tickets, passes, nextPass, storeVars, faults,
                   overlap, lateWrite, evalVars, targetCall, walk>>

-----------------------------------------------------------------------------
(* The loop of addBusinessHours, one iteration a step.  `hours` and            *)
(* remainingHours are counted in half hours, so that fractional hours occur.   *)

NoWalk == [pc |-> "none", startDate |-> NULL, hours |-> 0, result |-> NULL,
           remainingHours |-> 0]

\* `const result = new Date(startDate); let remainingHours = hours;`
EnterLoop(startDate, hours) ==
    [pc |-> "loop", startDate |-> startDate, hours |-> hours, result |-> startDate,
     remainingHours |-> hours]

\* The calls of a walk: every half hour of a week, and hours from below zero.
WalkCalls == {EnterLoop(d, h) : d \in 0..(WeekLength - 1), h \in (0 - 2)..MaxWalk}

\* The same with the jump at or after 17:00 going to 09:00 of the same day.
WalkStep_NoNextDay ==
    /\ walk.pc = "loop"
    /\ LET result == walk.result
           remainingHours == walk.remainingHours
           currentHour == getHours(result)
           currentDay == getDay(result)
           hoursUntilEndOfDay == AtHour(result, ClosingHour) - result
       IN  walk' =
             IF ~(remainingHours > 0) THEN [walk EXCEPT !.pc = "returned"]
             ELSE IF currentDay = 0 \/ currentDay = 6
               THEN [walk EXCEPT !.result = NextDayAtOpening(result)]
             ELSE IF currentHour < OpeningHour
               THEN [walk EXCEPT !.result = AtHour(result, OpeningHour)]
             ELSE IF currentHour >= ClosingHour
               THEN [walk EXCEPT !.result = AtHour(result, OpeningHour)]
             ELSE IF remainingHours <= hoursUntilEndOfDay
               THEN [walk EXCEPT !.result = result + remainingHours,
                                 !.remainingHours = 0]
             ELSE [walk EXCEPT !.result = NextDayAtOpening(result),
                               !.remainingHours = remainingHours - hoursUntilEndOfDay]
    /\ UNCHANGED <<monitorVars, clock, tickets, passes, nextPass, storeVars, faults,
                   overlap, lateWrite, evalVars, targetVars>>

\* The same with `remainingHours < hoursUntilEndOfDay` as the test for fitting
\* into the day.
WalkStep_StrictFit ==
    /\ walk.pc = "loop"
    /\ LET result == walk.result
           remainingHours == walk.remainingHours
           currentHour == getHours(result)
           currentDay == getDay(result)
           hoursUntilEndOfDay == AtHour(result, ClosingHour) - result
       IN  walk' =
             IF ~(remainingHours > 0) THEN [walk EXCEPT !.pc = "returned"]
             ELSE IF currentDay = 0 \/ currentDay = 6
               THEN [walk EXCEPT !.result = NextDayAtOpening(result)]
             ELSE IF currentHour < OpeningHour
               THEN [walk EXCEPT !.result = AtHour(result, OpeningHour)]
             ELSE IF currentHour >= ClosingHour
               THEN [walk EXCEPT !.result = NextDayAtOpening(result)]
             ELSE IF remainingHours < hoursUntilEndOfDay
               THEN [walk EXCEPT !.result = result + remainingHours,
                                 !.remainingHours = 0]
             ELSE [walk EXCEPT !.result = NextDayAtOpening(result),
                               !.remainingHours = remainingHours - hoursUntilEndOfDay]
    /\ UNCHANGED <<monitorVars, clock, tickets, passes, nextPass, storeVars, faults,
                   overlap, lateWrite, evalVars, targetVars>>

\* One evaluation of `while (remainingHours > 0)` and, when it holds, one
\* iteration of the loop body; when it does not, `return result`.
WalkStep ==
    /\ walk.pc = "loop"
    /\ LET result == walk.result
           remainingHours == walk.remainingHours
           currentHour == getHours(result)
           currentDay == getDay(result)
           hoursUntilEndOfDay == AtHour(result, ClosingHour) - result
       IN  walk' =
             IF ~(remainingHours > 0) THEN [walk EXCEPT !.pc = "returned"]
             ELSE IF currentDay = 0 \/ currentDay = 6
               THEN [walk EXCEPT !.result = NextDayAtOpening(result)]
             ELSE IF currentHour < OpeningHour
               THEN [walk EXCEPT !.result = AtHour(result, OpeningHour)]
             ELSE IF currentHour >= ClosingHour
               THEN [walk EXCEPT !.result = NextDayAtOpening(result)]
             ELSE IF remainingHours <= hoursUntilEndOfDay
               THEN [walk EXCEPT !.result = result + remainingHours,
                                 !.remainingHours = 0]
             ELSE [walk EXCEPT !.result = NextDayAtOpening(result),
                               !.remainingHours = remainingHours - hoursUntilEndOfDay]
    /\ UNCHANGED <<monitorVars, clock, tickets, passes, nextPass, storeVars, faults,
                   overlap, lateWrite, evalVars, targetVars>>

-----------------------------------------------------------------------------
(* Specifications *)

\* The service as constructed, beside a one-ticket table that no request changes,
\* at one instant.
Init ==
    /\ isRunning = FALSE
    /\ intervalId = NULL
    /\ alertThresholds = DefaultThresholds
    /\ timers = {}
    /\ pendingStarts = 0
    /\ noStartSinceStop = FALSE
    /\ clock = StartTime
    /\ tickets \in SmallWorlds
    /\ passes = [p \in PassIds |-> IdlePass]
    /\ nextPass = 1
    /\ alertCalls = {}
    /\ notifyCalls = {}
    /\ faults = 0
    /\ overlap = FALSE
    /\ lateWrite = FALSE
    /\ evTicket = NoTicket
    /\ evThresholds = DefaultThresholds
    /\ evNow = NULL
    /\ evClass = << >>
    /\ evPrev = << >>
    /\ targetCall = NoCall
    /\ targetResult = NoResult
    /\ walk = NoWalk

PassStep ==
    \E p \in PassIds, ok \in BOOLEAN :
        \/ PassFetch(p, ok)
        \/ PassCheck(p, ok)
        \/ PassRecord(p, ok)
        \/ PassNotifyAssignee(p, ok)
        \/ PassNotifyReporter(p, ok)

Next ==
    \/ StartCall
    \/ \E res \in SettingsResults : StartResume(res)
    \/ StopMonitoring
    \/ \E tm \in timers : Tick(tm)
    \/ PassStep

Spec == Init /\ [][Next]_vars

\* The monitor running after one completed startMonitoring with the seeded
\* settings, beside a two-ticket table; start and stop are not called again.
InitPass ==
    /\ isRunning = TRUE
    /\ intervalId = 1
    /\ alertThresholds = DefaultThresholds
    /\ timers = {1}
    /\ pendingStarts = 0
    /\ noStartSinceStop = FALSE
    /\ clock = StartTime
    /\ tickets \in Worlds
    /\ passes = [p \in PassIds |-> IdlePass]
    /\ nextPass = 1
    /\ alertCalls = {}
    /\ notifyCalls = {}
    /\ faults = 0
    /\ overlap = FALSE
    /\ lateWrite = FALSE
    /\ evTicket = NoTicket
    /\ evThresholds = DefaultThresholds
    /\ evNow = NULL
    /\ evClass = << >>
    /\ evPrev = << >>
    /\ targetCall = NoCall
    /\ targetResult = NoResult
    /\ walk = NoWalk

NextPass ==
    \/ \E tm \in timers : Tick(tm)
    \/ PassStep
    \/ AdvanceClock
    \/ \E t \in UpdatedTickets, status \in StatusInputs : UpdateStatus(t, status)

SpecPass == InitPass /\ [][NextPass]_vars

\* The monitor left running: the interval timer keeps firing while it exists
\* (setInterval), and every store call a pass awaits is answered, so the passes
\* started are carried through.  The clock starts one step before StartTime, so
\* that passes can lie more than 24 hours apart.
InitLive ==
    /\ isRunning = TRUE
    /\ intervalId = 1
    /\ alertThresholds = DefaultThresholds
    /\ timers = {1}
    /\ pendingStarts = 0
    /\ noStartSinceStop = FALSE
    /\ clock = StartTime - ClockStep
    /\ tickets \in LiveWorlds
    /\ passes = [p \in PassIds |-> IdlePass]
    /\ nextPass = 1
    /\ alertCalls = {}
    /\ notifyCalls = {}
    /\ faults = 0
    /\ overlap = FALSE
    /\ lateWrite = FALSE
    /\ evTicket = NoTicket
    /\ evThresholds = DefaultThresholds
    /\ evNow = NULL
    /\ evClass = << >>
    /\ evPrev = << >>
    /\ targetCall = NoCall
    /\ targetResult = NoResult
    /\ walk = NoWalk

NextLive ==
    \/ \E tm \in timers : Tick(tm)
    \/ PassStep
    \/ AdvanceClock
    \/ \E t \in UpdatedTickets, status \in StatusInputs : UpdateStatus(t, status)

SpecLive ==
    /\ InitLive
    /\ [][NextLive]_vars
    /\ WF_vars(\E tm \in timers : Tick(tm))
    /\ WF_vars(PassStep)

\* A classifier run.
InitEval ==
    /\ isRunning = FALSE
    /\ intervalId = NULL
    /\ alertThresholds = DefaultThresholds
    /\ timers = {}
    /\ pendingStarts = 0
    /\ noStartSinceStop = FALSE
    /\ clock = StartTime
    /\ tickets = << >>
    /\ passes = [p \in PassIds |-> IdlePass]
    /\ nextPass = 1
    /\ alertCalls = {}
    /\ notifyCalls = {}
    /\ faults = 0
    /\ overlap = FALSE
    /\ lateWrite = FALSE
    /\ evTicket \in EvalTickets
    /\ evThresholds \in EvalThresholds
    /\ evNow = NULL
    /\ evClass = << >>
    /\ evPrev = << >>
    /\ targetCall = NoCall
    /\ targetResult = NoResult
    /\ walk = NoWalk

NextEval == \E now \in 1..MaxEvalTime : Evaluate(now)

SpecEval == InitEval /\ [][NextEval]_vars

\* A deadline run.
InitTarget ==
    /\ isRunning = FALSE
    /\ intervalId = NULL
    /\ alertThresholds = DefaultThresholds
    /\ timers = {}
    /\ pendingStarts = 0
    /\ noStartSinceStop = FALSE
    /\ clock = StartTime
    /\ tickets = << >>
    /\ passes = [p \in PassIds |-> IdlePass]
    /\ nextPass = 1
    /\ alertCalls = {}
    /\ notifyCalls = {}
    /\ faults = 0
    /\ overlap = FALSE
    /\ lateWrite = FALSE
    /\ evTicket = NoTicket
    /\ evThresholds = DefaultThresholds
    /\ evNow = NULL
    /\ evClass = << >>
    /\ evPrev = << >>
    /\ targetCall \in TargetCalls
    /\ targetResult = NoResult
    /\ walk = NoWalk

NextTarget == CalculateSLATarget

SpecTarget == InitTarget /\ [][NextTarget]_vars

\* A business-hours walk.  The loop is synchronous code: it keeps taking its
\* next iteration until it returns.
InitWalk ==
    /\ isRunning = FALSE
    /\ intervalId = NULL
    /\ alertThresholds = DefaultThresholds
    /\ timers = {}
    /\ pendingStarts = 0
    /\ noStartSinceStop = FALSE
    /\ clock = StartTime
    /\ tickets = << >>
    /\ passes = [p \in PassIds |-> IdlePass]
    /\ nextPass = 1
    /\ alertCalls = {}
    /\ notifyCalls = {}
    /\ faults = 0
    /\ overlap = FALSE
    /\ lateWrite = FALSE
    /\ evTicket = NoTicket
    /\ evThresholds = DefaultThresholds
    /\ evNow = NULL
    /\ evClass = << >>
    /\ evPrev = << >>
    /\ targetCall = NoCall
    /\ targetResult = NoResult
    /\ walk \in WalkCalls

NextWalk == WalkStep

SpecWalk == InitWalk /\ [][NextWalk]_vars /\ WF_vars(NextWalk)

-----------------------------------------------------------------------------
(* Claims *)

Abs(x) == IF x < 0 THEN 0 - x ELSE x

\* C1: when no store call has failed and no two passes have overlapped, two
\* AlertRecords of the same ticket and kind are at least 24 hours apart, and so
\* are two notifications of the same ticket, kind and recipient: passes run
\* within one dedup window leave one AlertRecord and at most one notification
\* per recipient, for every ticket, unassigned ones included.
C1_OneAlertPerWindow ==
    (faults = 0 /\ ~overlap) =>
        /\ \A a, b \in AlertRecords :
              (a # b /\ a.ticket = b.ticket /\ a.kind = b.kind)
                  => Abs(a.at - b.at) >= DedupHours
        /\ \A m, n \in Notifications :
              (m # n /\ m.ticket = n.ticket /\ m.type = n.type /\ m.user = n.user)
                  => Abs(m.at - n.at) >= DedupHours

\* C2: at most one repeating timer is active, whatever startMonitoring calls
\* were made.
C2_AtMostOneTimer == Cardinality(timers) <= 1

\* C3: once stopMonitoring was called and no startMonitoring call was issued
\* after it, no pass is started; and stopMonitoring on a stopped monitor changes
\* nothing.
C3_NoPassAfterStop ==
    [][ /\ noStartSinceStop => nextPass' = nextPass
        /\ (StopMonitoring /\ ~isRunning /\ intervalId = NULL)
              => UNCHANGED <<isRunning, intervalId, timers, alertThresholds, passes>>
      ]_vars

\* C4: the running flag is true exactly when a timer handle is held, and the
\* flag changes only from false to true in startMonitoring and from true to
\* false in stopMonitoring.
C4_RunningIffHandle ==
    /\ [](isRunning \in BOOLEAN /\ (isRunning <=> intervalId # NULL))
    /\ [][ isRunning' # isRunning =>
             \/ ~isRunning /\ isRunning' /\ \E res \in SettingsResults : StartResume(res)
             \/ isRunning /\ ~isRunning' /\ StopMonitoring
         ]_vars

\* C4 witness: running with the handle held, even with two timers alive.
C4_Witness == isRunning /\ intervalId # NULL /\ Cardinality(timers) = 2

\* C5: a step in which a store call of a pass fails leaves the timers, the
\* handle and the running flag as they were, and while the monitor is running
\* its timer is alive, so a tick can start the next pass.
C5_FailureKeepsTimer ==
    /\ [][ faults' # faults =>
             UNCHANGED <<timers, intervalId, isRunning>> ]_vars
    /\ []((isRunning /\ nextPass <= MaxPasses)
             => (intervalId \in timers /\ ENABLED (\E tm \in timers : Tick(tm))))

\* C5 witness: a store call of the first pass failed, that pass is over, the
\* monitor is running and a later tick has started the second pass.
C5_Witness ==
    /\ faults > 0
    /\ ~overlap
    /\ isRunning
    /\ passes[1].pc = "done"
    /\ passes[2].pc = "fetch"

\* The classification of the claim for a ticket with slaTarget > createdAt.
ClaimedClass(ticket, now, th) ==
    LET total == ticket.sla_target - ticket.created_at
        elapsed == now - ticket.created_at
    IN  IF ticket.sla_target - now < 0 THEN <<"breach">>
        ELSE IF elapsed * Percent >= th.critical * total THEN <<"critical">>
        ELSE IF elapsed * Percent >= th.warning * total THEN <<"warning">>
        ELSE << >>

\* C6: for a ticket with slaTarget > createdAt the handler invoked is breach when
\* slaTarget - now < 0, else critical when the elapsed ratio reaches the critical
\* ratio, else warning when it reaches the warning ratio, else none; at
\* now = slaTarget it is critical.
C6_Classification ==
    (evNow # NULL /\ evTicket.sla_target > evTicket.created_at) =>
        /\ evClass = ClaimedClass(evTicket, evNow, evThresholds)
        /\ evNow = evTicket.sla_target => evClass = <<"critical">>

\* C6 witness: a well-formed ticket evaluated at its deadline exactly.
C6_Witness ==
    /\ evNow # NULL
    /\ evTicket.sla_target > evTicket.created_at
    /\ evNow = evTicket.sla_target
    /\ evClass = <<"critical">>

\* C7: within one pass all recordSLAAlert and createSLANotification calls for a
\* ticket are of one alert kind.
C7_OneKindPerPass ==
    /\ \A a, b \in alertCalls :
          (a.pass = b.pass /\ a.ticket = b.ticket) => a.kind = b.kind
    /\ \A m, n \in notifyCalls :
          (m.pass = n.pass /\ m.ticket = n.ticket) => m.type = n.type
    /\ \A a \in alertCalls, n \in notifyCalls :
          (a.pass = n.pass /\ a.ticket = n.ticket) => n.type = SlaType(a.kind)

\* C7 witness: a finished pass raised a breach for a ticket that is also past
\* both ratios.
C7_Witness ==
    \E a \in alertCalls :
        /\ passes[a.pass].pc = "done"
        /\ a.kind = "breach"
        /\ RatioAtLeast(a.at - tickets[a.ticket].created_at,
                        tickets[a.ticket].sla_target - tickets[a.ticket].created_at,
                        alertThresholds.warning)
        /\ \E n \in notifyCalls : n.pass = a.pass /\ n.ticket = a.ticket

Rank(class) ==
    IF class = << >> THEN 0
    ELSE IF class = <<"warning">> THEN 1
    ELSE IF class = <<"critical">> THEN 2
    ELSE IF class = <<"breach">> THEN 3
    ELSE 4

\* C8: over evaluations of one ticket at instants that do not decrease, with
\* thresholds fixed, the class never moves back in the order none, warning,
\* critical, breach.
C8_Monotone == [][Rank(evClass') >= Rank(evClass) /\ Rank(evClass') <= 3]_vars

\* C8 witness: a ticket evaluated as critical and then, later, as breach.
C8_Witness == evPrev = <<"critical">> /\ evClass = <<"breach">>

\* C9: every recordSLAAlert and createSLANotification call of a pass is for a
\* ticket with a deadline that was not resolved or closed when the pass's query
\* ran, and so for no ticket that was resolved, closed or without deadline ever
\* since the pass started.
C9_OnlyEligible ==
    [][ /\ \A a \in alertCalls' \ alertCalls :
              /\ a.ticket \notin passes[a.pass].excl
              /\ tickets[a.ticket].sla_target # NULL
        /\ \A n \in notifyCalls' \ notifyCalls :
              /\ n.ticket \notin passes[n.pass].excl
              /\ tickets[n.ticket].sla_target # NULL
        /\ \A p \in PassIds :
              (passes[p].pc = "fetch" /\ passes'[p].pc # "fetch")
                  => \A i \in DOMAIN passes'[p].queue :
                        /\ passes'[p].queue[i] \notin passes[p].excl
                        /\ Eligible(tickets[passes'[p].queue[i]])
      ]_vars

\* C9 witness: a pass has alerted the second ticket while the first, overdue
\* and with the earlier deadline, is resolved and has no call at all.
C9_Witness ==
    /\ Len(tickets) = 2
    /\ tickets[1].status = "resolved"
    /\ tickets[1].sla_target # NULL
    /\ tickets[1].sla_target < clock
    /\ \E a \in alertCalls : a.ticket = 2
    /\ \A a \in alertCalls : a.ticket # 1
    /\ \A n \in notifyCalls : n.ticket # 1

\* The recipients of a breach of a ticket row.
BreachRecipients(ticket) ==
    (IF ticket.assignee_id # NULL THEN {ticket.assignee_id} ELSE {})
    \cup (IF ticket.reporter_id # ticket.assignee_id THEN {ticket.reporter_id} ELSE {})

\* Pass p has left the handler it ran for ticket t.
LeftHandler(p, t) == passes[p].pc = "done" \/ CurTicket(p) # t

\* C10: once a pass is through with a breach it raised, it has called
\* createSLANotification once for each of: the assignee if there is one, the
\* reporter if it is not the assignee; and for nobody else, whether or not a
\* call failed.
C10_BreachRecipients ==
    \A a \in alertCalls :
        (a.kind = "breach" /\ LeftHandler(a.pass, a.ticket)) =>
            LET calls == {n \in notifyCalls : n.pass = a.pass /\ n.ticket = a.ticket}
            IN  /\ {n.user : n \in calls} = BreachRecipients(tickets[a.ticket])
                /\ Cardinality(calls) = Cardinality(BreachRecipients(tickets[a.ticket]))
                /\ \A n \in calls : n.type = "sla_breach"

\* C10 witness: the assignee's notification failed and the reporter's was made.
C10_Witness ==
    \E m, n \in notifyCalls :
        /\ m.pass = n.pass /\ m.ticket = n.ticket /\ m.type = "sla_breach"
        /\ m.user = tickets[m.ticket].assignee_id /\ ~m.ok
        /\ n.user = tickets[n.ticket].reporter_id /\ n.user # m.user
        /\ LeftHandler(m.pass, m.ticket)

\* C11: once a pass is through with a warning or a critical alert it raised, it
\* has called createSLANotification once, for the assignee, when the ticket has
\* one, and not at all when it has none; no notification of these kinds goes to
\* a reporter who is not the assignee.
C11_WarningToAssigneeOnly ==
    /\ \A a \in alertCalls :
          (a.kind \in {"warning", "critical"} /\ LeftHandler(a.pass, a.ticket)) =>
              LET calls == {n \in notifyCalls : n.pass = a.pass /\ n.ticket = a.ticket}
                  assignee == tickets[a.ticket].assignee_id
              IN  /\ {n.user : n \in calls} = (IF assignee # NULL THEN {assignee} ELSE {})
                  /\ Cardinality(calls) <= 1
                  /\ \A n \in calls : n.type = SlaType(a.kind)
    /\ \A n \in notifyCalls :
          n.type \in {"sla_warning", "sla_critical"} =>
              /\ n.user # NULL
              /\ n.user = tickets[n.ticket].assignee_id

\* C11 witness: a finished pass has raised a warning for an assigned ticket whose
\* reporter is somebody else, and the assignee alone was notified.
C11_Witness ==
    \E a \in alertCalls :
        /\ a.kind = "warning"
        /\ passes[a.pass].pc = "done"
        /\ tickets[a.ticket].assignee_id # NULL
        /\ tickets[a.ticket].reporter_id # tickets[a.ticket].assignee_id
        /\ \E n \in notifyCalls :
              n.pass = a.pass /\ n.ticket = a.ticket /\ n.user = tickets[a.ticket].assignee_id

\* C12: when passes do not overlap and a createSLANotification call of an alert
\* has failed, no later pass within 24 hours of that call calls recordSLAAlert
\* or createSLANotification again for the same ticket and kind.
C12_FailedDeliveryNotRetried ==
    ~overlap =>
        \A m \in notifyCalls :
            ~m.ok =>
                /\ \A a \in alertCalls :
                      ~ /\ a.pass > m.pass
                        /\ a.ticket = m.ticket
                        /\ SlaType(a.kind) = m.type
                        /\ a.at < m.at + DedupHours
                /\ \A n \in notifyCalls :
                      ~ /\ n.pass > m.pass
                        /\ n.ticket = m.ticket
                        /\ n.type = m.type
                        /\ n.at < m.at + DedupHours

\* evaluateTicketSLA invokes a handler for ticket t in pass p.
NeedsHandler(p, t) == evaluateTicketSLA(tickets[t], passes[p].now, alertThresholds) # << >>

\* C13: a step of a pass past its ticket query, failing or not and whatever the
\* ticket (one with slaTarget <= createdAt included), either stays with its
\* ticket or moves to the next fetched ticket that needs a handler; the pass
\* ends only when no fetched ticket that needs a handler is left.
C13_PassContinues ==
    [][ \A p \in PassIds :
          (InFlight(p) /\ passes[p].pc # "fetch" /\ passes'[p] # passes[p]) =>
              LET rest == Tail(passes[p].queue)
              IN  \/ /\ passes'[p].pc \notin {"done", "idle"}
                     /\ passes'[p].queue = passes[p].queue
                     /\ passes'[p].todo = passes[p].todo
                  \/ /\ passes'[p].pc = "check"
                     /\ \E k \in 1..Len(rest) :
                           /\ passes'[p].queue = SubSeq(rest, k, Len(rest))
                           /\ \A i \in 1..(k - 1) : ~NeedsHandler(p, rest[i])
                           /\ NeedsHandler(p, rest[k])
                           /\ passes'[p].todo =
                                 evaluateTicketSLA(tickets[rest[k]], passes[p].now,
                                                   alertThresholds)
                  \/ /\ passes'[p].pc = "done"
                     /\ \A i \in DOMAIN rest : ~NeedsHandler(p, rest[i])
      ]_vars

\* C13 witness: in one pass the notification for a ticket whose deadline lies
\* before its creation failed, and the pass went on to alert the other ticket.
C13_Witness ==
    \E m \in notifyCalls, a \in alertCalls :
        /\ ~m.ok
        /\ tickets[m.ticket].sla_target <= tickets[m.ticket].created_at
        /\ a.pass = m.pass
        /\ a.ticket # m.ticket
        /\ passes[a.pass].pc = "done"

\* C14: a ticket with slaTarget - createdAt zero or negative is classified as
\* breach at every instant now >= createdAt, now = createdAt = slaTarget
\* included.
C14_NonPositiveIsBreach ==
    (/\ evNow # NULL
     /\ evTicket.sla_target - evTicket.created_at <= 0
     /\ evNow >= evTicket.created_at)
        => evClass = <<"breach">>

\* The resolution hours the claims name for a call: those of the configuration
\* row, or the hard-coded default of the priority.
ClaimedHours(call) ==
    IF call.config.ok /\ Len(call.config.rows) > 0
    THEN call.config.rows[1].resolution_time_hours
    ELSE defaultSLA[call.priority]

\* C15: with businessHoursOnly = false and the configuration read answered, the
\* deadline is exactly now + H hours, H the configured resolution time or, with
\* no active row, the default of the priority, at every start instant.
C15_WallClockExact ==
    (/\ targetResult # NoResult
     /\ ~targetCall.businessHoursOnly
     /\ targetCall.config.ok)
        => /\ targetResult.state = "resolved"
           /\ targetResult.value = targetCall.now + ClaimedHours(targetCall) * PerHour

\* C15 witness: a low-priority deadline without configuration row computed on a
\* Saturday at 23:30 lies 120 hours later.
C15_Witness ==
    /\ targetResult # NoResult
    /\ ~targetCall.businessHoursOnly
    /\ targetCall.config = [ok |-> TRUE, rows |-> << >>]
    /\ targetCall.priority = "low"
    /\ getDay(targetCall.now) = 6
    /\ targetCall.now % PerDay = 23 * PerHour + 1
    /\ targetResult.value = targetCall.now + 120 * PerHour

\* A half hour starting at instant u lies in the business window.
IsBusiness(u) ==
    /\ getDay(u) \in 1..5
    /\ getHours(u) >= OpeningHour
    /\ getHours(u) < ClosingHour

\* The business time from instant a to instant b, in half hours.
BusinessTime(a, b) == Cardinality({u \in a..(b - 1) : IsBusiness(u)})

\* C16: with businessHoursOnly = true and hours > 0, the business time (weekdays,
\* 09:00 to 17:00) from the start instant to the deadline is exactly `hours`, at
\* every start instant; Friday 16:00 plus 4 hours gives Monday 12:00.
C16_BusinessTimeExact ==
    (/\ targetResult # NoResult
     /\ targetCall.businessHoursOnly
     /\ targetCall.config.ok
     /\ ClaimedHours(targetCall) > 0)
        => /\ targetResult.state = "resolved"
           /\ targetResult.value >= targetCall.now
           /\ BusinessTime(targetCall.now, targetResult.value)
                 = ClaimedHours(targetCall) * PerHour
           /\ (targetCall.now = 5 * PerDay + 16 * PerHour /\ ClaimedHours(targetCall) = 4)
                 => targetResult.value = 8 * PerDay + 12 * PerHour

\* C16 witness: four business hours from Friday 16:00 end on Monday at 12:00.
C16_Witness ==
    /\ targetResult # NoResult
    /\ targetCall.businessHoursOnly
    /\ targetCall.config.ok
    /\ ClaimedHours(targetCall) = 4
    /\ targetCall.now = 5 * PerDay + 16 * PerHour
    /\ targetResult.value = 8 * PerDay + 12 * PerHour

\* C17: the promise of calculateSLATarget never rejects, and when the
\* configuration query fails it resolves to now + 24 hours.
C17_NeverThrows ==
    targetResult # NoResult =>
        /\ targetResult.state = "resolved"
        /\ ~targetCall.config.ok
              => targetResult.value = targetCall.now + 24 * PerHour

\* C17 witness: a business-hours deadline asked for on a Saturday, with the
\* configuration query failing, resolved to the Sunday 24 hours later.
C17_Witness ==
    /\ targetResult.state = "resolved"
    /\ ~targetCall.config.ok
    /\ targetCall.businessHoursOnly
    /\ getDay(targetCall.now) = 6
    /\ targetResult.value = targetCall.now + 24 * PerHour

\* C18: when no active configuration row exists or the configuration read
\* fails, the deadline is computed from the hard-coded default of the priority
\* (critical 4h, high 24h, medium 72h, low 120h).
C18_DefaultOnUnavailable ==
    (/\ targetResult # NoResult
     /\ ~targetCall.config.ok \/ Len(targetCall.config.rows) = 0)
        => /\ targetResult.state = "resolved"
           /\ targetResult.value =
                 addBusinessHours(targetCall.now, defaultSLA[targetCall.priority],
                                  targetCall.businessHoursOnly)

\* C19: a startMonitoring call whose settings query fails completes with the
\* monitor running and the thresholds at their defaults 0.8 and 0.95, whatever
\* start and stop calls came before.
C19_FailedLoadGivesDefaults ==
    [][ StartResume([ok |-> FALSE, rows |-> << >>])
          => (isRunning' /\ alertThresholds' = DefaultThresholds) ]_vars

\* C20: a handler returns without raising its alert only when a notification of
\* the same ticket and the same kind was written within the last 24 hours, and
\* such a notification comes from an alert of that kind for that ticket; in
\* every other case the pass that classifies the ticket calls recordSLAAlert
\* with that kind, whatever alerts of other kinds the ticket has had.
C20_SuppressedBySameKindOnly ==
    /\ [][ \A p \in PassIds :
              /\ (passes[p].pc = "check" /\ passes'[p] # passes[p]) =>
                    \/ /\ passes'[p].pc = "record"
                       /\ passes'[p].queue = passes[p].queue
                       /\ passes'[p].todo = passes[p].todo
                    \/ \E n \in Notifications :
                          /\ n.ticket = CurTicket(p)
                          /\ n.type = SlaType(CurKind(p))
                          /\ n.at > clock - DedupHours
              /\ (passes[p].pc = "record" /\ passes'[p] # passes[p]) =>
                    \E a \in alertCalls' :
                        a.pass = p /\ a.ticket = CurTicket(p) /\ a.kind = CurKind(p)
        ]_vars
    /\ [](\A n \in notifyCalls :
             \E a \in alertCalls :
                 a.pass = n.pass /\ a.ticket = n.ticket /\ SlaType(a.kind) = n.type)

\* C20 witness: a ticket with a warning notification less than 24 hours old has
\* got a critical alert from a later pass.
C20_Witness ==
    \E n \in Notifications, a \in alertCalls :
        /\ n.type = "sla_warning"
        /\ a.kind = "critical"
        /\ a.ticket = n.ticket
        /\ a.pass > n.pass
        /\ a.at > n.at
        /\ a.at < n.at + DedupHours

\* Two notifications written for the same ticket, kind and recipient less than
\* 24 hours apart.
DuplicateNotifications ==
    \E m, n \in Notifications :
        /\ m # n
        /\ m.ticket = n.ticket /\ m.type = n.type /\ m.user = n.user
        /\ Abs(m.at - n.at) < DedupHours

\* C21: a tick starts a pass whether or not an earlier pass is still in flight;
\* and when no store call has failed, two notifications for the same ticket,
\* kind and recipient inside one 24-hour window come from passes that overlapped.
C21_TicksNotSkipped ==
    /\ (timers # {} /\ nextPass <= MaxPasses) => ENABLED (\E tm \in timers : Tick(tm))
    /\ (faults = 0 /\ DuplicateNotifications) => overlap

\* C21 witness: two overlapping passes, no store call failing, have each
\* recorded the same alert and notified the same recipient at the same instant.
C21_Witness ==
    /\ overlap
    /\ faults = 0
    /\ \E a, b \in alertCalls, m, n \in Notifications :
          /\ a.pass # b.pass /\ a.ticket = b.ticket /\ a.kind = b.kind
          /\ m.pass = a.pass /\ n.pass = b.pass
          /\ m.ticket = a.ticket /\ n.ticket = a.ticket
          /\ m.type = SlaType(a.kind) /\ n.type = m.type
          /\ m.user = n.user
          /\ Abs(m.at - n.at) < DedupHours

\* C22: a stopMonitoring call leaves every pass where it is and writes nothing,
\* and a pass in flight can take its next step whether or not the monitor is
\* running, so it runs on after the stop.
C22_StopLeavesPassesRunning ==
    /\ [][ ((isRunning /\ ~isRunning') \/ (noStartSinceStop' /\ ~noStartSinceStop))
              => (passes' = passes /\ alertCalls' = alertCalls
                  /\ notifyCalls' = notifyCalls) ]_vars
    /\ [](\A p \in PassIds :
             InFlight(p) =>
                 ENABLED (\/ PassFetch(p, TRUE) \/ PassCheck(p, TRUE)
                          \/ PassRecord(p, TRUE) \/ PassNotifyAssignee(p, TRUE)
                          \/ PassNotifyReporter(p, TRUE)))

\* C22 witness: no timer was ever left behind and the monitor is stopped, and a
\* pass, started while it ran, has recorded an alert and written a notification
\* while the running flag was false.
C22_Witness ==
    /\ ~isRunning
    /\ timers = {}
    /\ pendingStarts = 0
    /\ noStartSinceStop
    /\ lateWrite
    /\ \E a \in alertCalls, n \in Notifications :
          n.pass = a.pass /\ n.ticket = a.ticket /\ passes[a.pass].pc = "done"

\* The tickets pass p has made a store call for so far.
Handled(p) ==
    {a.ticket : a \in {c \in alertCalls : c.pass = p}}
    \cup {n.ticket : n \in {c \in notifyCalls : c.pass = p}}

\* A call made in pass p for ticket t comes when t is the ticket the pass is at,
\* every other ticket the pass has made calls for has left its list, and none
\* of them has a later deadline.
InTurn(p, t) ==
    /\ passes[p].pc \notin {"idle", "done", "fetch"}
    /\ t = CurTicket(p)
    /\ \A d \in Handled(p) \ {t} :
          /\ \A i \in DOMAIN passes[p].queue : passes[p].queue[i] # d
          /\ tickets[d].sla_target <= tickets[t].sla_target

\* C23: the list of a pass is in ascending slaTarget order, and its calls are
\* made ticket by ticket down that list: each recordSLAAlert and
\* createSLANotification call is for the ticket the pass is at, after the calls
\* for all tickets before it; a notification follows the alert record of its
\* ticket, and the reporter's breach notification follows the assignee's.
C23_OneTicketAtATime ==
    /\ [](\A p \in PassIds :
             \A i, j \in DOMAIN passes[p].queue :
                 i < j => /\ passes[p].queue[i] # passes[p].queue[j]
                          /\ tickets[passes[p].queue[i]].sla_target
                                <= tickets[passes[p].queue[j]].sla_target)
    /\ [][ /\ \A a \in alertCalls' \ alertCalls :
                  /\ InTurn(a.pass, a.ticket)
                  /\ \A n \in notifyCalls : ~(n.pass = a.pass /\ n.ticket = a.ticket)
            /\ \A n \in notifyCalls' \ notifyCalls :
                  /\ InTurn(n.pass, n.ticket)
                  /\ \E b \in alertCalls : b.pass = n.pass /\ b.ticket = n.ticket
                  /\ (/\ n.user = tickets[n.ticket].reporter_id
                      /\ tickets[n.ticket].assignee_id # NULL
                      /\ tickets[n.ticket].assignee_id # n.user)
                        => \E m \in notifyCalls :
                              /\ m.pass = n.pass /\ m.ticket = n.ticket
                              /\ m.user = tickets[n.ticket].assignee_id
        ]_vars

\* C23 witness: a finished pass has notified assignee and reporter of a breach
\* and then the assignee of a ticket with a later deadline.
C23_Witness ==
    \E m, r, n \in notifyCalls :
        /\ m.pass = n.pass /\ r.pass = n.pass
        /\ passes[n.pass].pc = "done"
        /\ m.ticket = r.ticket
        /\ m.type = "sla_breach"
        /\ m.user = tickets[m.ticket].assignee_id
        /\ r.user = tickets[m.ticket].reporter_id
        /\ r.user # m.user
        /\ tickets[m.ticket].sla_target < tickets[n.ticket].sla_target

\* The recipients of an alert of a kind for a ticket row.
Recipients(kind, ticket) ==
    IF kind = "breach" THEN BreachRecipients(ticket)
    ELSE IF ticket.assignee_id # NULL THEN {ticket.assignee_id} ELSE {}

\* C24: once a pass is through with an alert whose AlertRecord could not be
\* written, it has called createSLANotification for every recipient of that
\* alert all the same.
C24_NotifiesWithoutRecord ==
    \A a \in alertCalls :
        (~a.ok /\ LeftHandler(a.pass, a.ticket)) =>
            {n.user : n \in {c \in notifyCalls : c.pass = a.pass /\ c.ticket = a.ticket
                                                  /\ c.type = SlaType(a.kind)}}
                = Recipients(a.kind, tickets[a.ticket])

\* C24 witness: the AlertRecord of a breach was not written, and assignee and
\* reporter have their notifications from the same pass.
C24_Witness ==
    \E a \in alertCalls, m, n \in Notifications :
        /\ ~a.ok
        /\ a.kind = "breach"
        /\ LeftHandler(a.pass, a.ticket)
        /\ m.pass = a.pass /\ n.pass = a.pass
        /\ m.ticket = a.ticket /\ n.ticket = a.ticket
        /\ m.user = tickets[a.ticket].assignee_id
        /\ n.user = tickets[a.ticket].reporter_id
        /\ m.user # n.user

\* C25: a step of a pass, from the tick that starts it to its last store call,
\* leaves the tickets table, the running flag, the timer handle, the timers and
\* the thresholds as they were; it changes the log and the notifications only.
C25_PassFrame ==
    [][ (\/ passes' # passes \/ nextPass' # nextPass \/ faults' # faults
         \/ alertCalls' # alertCalls \/ notifyCalls' # notifyCalls)
          => UNCHANGED <<tickets, isRunning, intervalId, timers, alertThresholds,
                         pendingStarts>> ]_vars

\* C25 witness: a pass has recorded its alert and notified both recipients and
\* is over; the ticket row is as it was, the monitor runs with the thresholds
\* it loaded and holds its timer.
C25_Witness ==
    /\ \E a \in alertCalls, m, n \in Notifications :
          /\ passes[a.pass].pc = "done"
          /\ m.pass = a.pass /\ n.pass = a.pass /\ m.user # n.user
    /\ tickets = <<Overdue("open", Assignee)>>
    /\ isRunning
    /\ intervalId \in timers
    /\ alertThresholds = [warning |-> 60, critical |-> 90]

\* C26: no step of the engine (start, stop, tick, pass) takes an AlertRecord
\* away or changes one: every AlertRecord of the log is still in it, unchanged,
\* after the step.
C26_AlertRecordsOnlyGrow == [][AlertRecords \subseteq AlertRecords']_vars

\* C26 witness: two passes have each written an AlertRecord for the ticket, and
\* the monitor has been stopped since; both records are in the log.
C26_Witness ==
    /\ \E a, b \in AlertRecords : a.pass # b.pass /\ a.ticket = b.ticket
    /\ \A p \in PassIds : passes[p].pc = "done"
    /\ noStartSinceStop
    /\ ~isRunning

\* C27: every iteration of the loop of addBusinessHours either ends the walk
\* (nothing remains), or reduces the remaining hours by a positive amount, or
\* leaves them and moves the clock forward to a later 09:00; and the call
\* returns, for every start instant and for zero, negative and fractional hours.
C27_WalkTerminates ==
    /\ [][ walk' # walk =>
              /\ walk.pc = "loop"
              /\ \/ walk'.pc = "returned" /\ ~(walk.remainingHours > 0)
                 \/ /\ walk'.pc = "loop"
                    /\ walk'.remainingHours = 0
                    /\ walk.remainingHours > 0
                 \/ /\ walk'.pc = "loop"
                    /\ walk'.remainingHours < walk.remainingHours
                    /\ walk'.remainingHours > 0
                    /\ walk'.result > walk.result
                 \/ /\ walk'.pc = "loop"
                    /\ walk'.remainingHours = walk.remainingHours
                    /\ walk'.result > walk.result
                    /\ walk'.result % PerDay = OpeningHour * PerHour
        ]_vars
    /\ <>(walk.pc = "returned")

\* C27 witness: a walk of more than a business day, begun on a Saturday, has
\* returned.
C27_Witness ==
    /\ walk.pc = "returned"
    /\ getDay(walk.startDate) = 6
    /\ walk.hours > (ClosingHour - OpeningHour) * PerHour
    /\ walk.result > walk.startDate + 2 * PerDay

C29_FailedLookupRaises ==
    [][ \A p \in PassIds :
          /\ (passes[p].pc = "check" /\ passes'[p] # passes[p] /\ faults' # faults) =>
                /\ passes'[p].pc = "record"
                /\ passes'[p].queue = passes[p].queue
                /\ passes'[p].todo = passes[p].todo
          /\ (passes[p].pc = "record" /\ passes'[p] # passes[p]) =>
                /\ \E a \in alertCalls' \ alertCalls :
                      a.pass = p /\ a.ticket = CurTicket(p) /\ a.kind = CurKind(p)
                /\ tickets[CurTicket(p)].assignee_id # NULL
                      => passes'[p].pc = "notifyAssignee"
      ]_vars

\* C29 witness: the only failed store call was a dedup lookup, no two passes
\* overlapped, and a later pass has repeated the alert and the notification of
\* an earlier pass inside the 24-hour window.
C29_Witness ==
    /\ ~overlap
    /\ faults = 1
    /\ \A c \in alertCalls \cup notifyCalls : c.ok
    /\ \E m, n \in Notifications, a \in alertCalls :
          /\ m.pass < n.pass
          /\ m.ticket = n.ticket /\ m.type = n.type /\ m.user = n.user
          /\ n.at < m.at + DedupHours
          /\ a.pass = n.pass /\ a.ticket = n.ticket /\ SlaType(a.kind) = n.type

\* The ticket is eligible and past its deadline.
BreachDue(t) == Eligible(tickets[t]) /\ tickets[t].sla_target < clock

\* The user C30 names: the reporter, who is the assignee when both are the same.
BreachRecipient(t) ==
    IF tickets[t].reporter_id = tickets[t].assignee_id
    THEN tickets[t].assignee_id
    ELSE tickets[t].reporter_id

\* A breach alert of the ticket with a breach notification to that user.
BreachRaised(t) ==
    /\ \E a \in alertCalls : a.ticket = t /\ a.kind = "breach"
    /\ \E n \in Notifications :
          n.ticket = t /\ n.type = "sla_breach" /\ n.user = BreachRecipient(t)

\* C30: with the timer firing and every store call answered, a ticket past its
\* deadline gets a breach alert with a notification to its reporter (its
\* assignee when that is the same user) unless a store call fails or the ticket
\* stops being eligible; and a pass that checks a breach when every breach
\* notification of the ticket is 24 hours old or older, the first such pass
\* included, records the alert again and writes that notification again.
C30_BreachEventuallyRaised ==
    /\ \A t \in UpdatedTickets :
          BreachDue(t) => <>(faults > 0 \/ ~Eligible(tickets[t]) \/ BreachRaised(t))
    /\ [][ \A p \in PassIds :
              /\ ( /\ passes[p].pc = "check" /\ passes'[p] # passes[p]
                   /\ CurKind(p) = "breach"
                   /\ \A n \in Notifications :
                         (n.ticket = CurTicket(p) /\ n.type = "sla_breach")
                             => n.at + DedupHours <= clock )
                    => passes'[p].pc = "record" /\ passes'[p].queue = passes[p].queue
              /\ ( /\ passes[p].pc \in {"record", "notifyAssignee", "notifyReporter"}
                   /\ passes'[p] # passes[p] /\ faults' = faults
                   /\ CurKind(p) = "breach"
                   /\ passes'[p].pc \notin {"notifyAssignee", "notifyReporter"} )
                    => \E n \in Notifications' :
                          /\ n.pass = p /\ n.ticket = CurTicket(p) /\ n.type = "sla_breach"
                          /\ n.user = BreachRecipient(CurTicket(p))
          ]_vars

\* C30 witness: no store call failed, no passes overlapped, and the recipient has
\* two breach notifications for the ticket, the second from a later pass more
\* than 24 hours after the first.
C30_Witness ==
    /\ faults = 0
    /\ ~overlap
    /\ \E t \in UpdatedTickets, m, n \in Notifications :
          /\ BreachDue(t)
          /\ m.ticket = t /\ n.ticket = t
          /\ m.type = "sla_breach" /\ n.type = "sla_breach"
          /\ m.user = BreachRecipient(t) /\ n.user = m.user
          /\ m.pass < n.pass
          /\ n.at > m.at + DedupHours
          /\ \E a \in alertCalls : a.pass = n.pass /\ a.ticket = t /\ a.kind = "breach"

====
